---- MODULE Spec2Model ----
(***************************************************************************)
(* Uwuzu.watch_timeline (the live poll loop) and Uwuzu.iter_timeline (the   *)
(* page walker) of src/__init__.py, as two state machines.                  *)
(*                                                                          *)
(* A post is represented by its identifier (Post.id, the 'uniqid' field):   *)
(* the two loops read nothing else of a post.  The remote feed is the       *)
(* environment: every fetch returns any window the bounds allow, or fails.  *)
(***************************************************************************)
EXTENDS Integers, Sequences, FiniteSets

\* ---------------------------------------------------------------- bounds
\* Number of distinct post identifiers the feed can ever present.
NumIds ==
    3
\* Largest window one get_timeline call returns to watch_timeline.
MaxWindow ==
    3
\* Largest max_pages argument iter_timeline is started with.
MaxPagesArg ==
    3
\* Largest page one get_timeline call returns to iter_timeline.
MaxPageLen ==
    3

Ids ==
    1..NumIds

\* ------------------------------------------------------------- variables
VARIABLES
    \* watch_timeline: locals and position
    seen_ids,     \* line 257
    first_run,    \* line 258
    callback,     \* parameter: TRUE when a callable was supplied, FALSE for None
    new_posts,    \* line 267
    todo,         \* what the iterator of line 268 has not produced yet
    wpc,          \* "fetch" (262), "admit" (269), "call" (270), "sleep" (275), "halted"
    \* watch_timeline: history
    cycle,        \* how the current/latest cycle went
    baseline,     \* identifiers returned by the baseline poll
    calls,        \* every identifier passed to callback, in order
    cycleCalls,   \* those passed in the current/latest cycle
    returned,     \* identifiers of the posts the latest successful fetch returned
    \* iter_timeline: parameter, locals and position
    max_pages,    \* parameter
    page,         \* loop variable of line 248
    cur,          \* posts of the current page not yet yielded
    ipc,          \* "fetch" (249), "yield" (252-253), "pause" (254), "done", "error"
    \* iter_timeline: history
    pages,        \* every page returned, in order
    requested,    \* the page argument of every get_timeline call, in order
    yielded,      \* every post yielded, in order
    events        \* "call" per get_timeline call and "pause" per time.sleep, in order

watchVars ==
    <<seen_ids, first_run, callback, new_posts, todo, wpc,
      cycle, baseline, calls, cycleCalls, returned>>

walkVars ==
    <<max_pages, page, cur, ipc, pages, requested, yielded, events>>

vars ==
    <<seen_ids, first_run, callback, new_posts, todo, wpc,
      cycle, baseline, calls, cycleCalls, returned,
      max_pages, page, cur, ipc, pages, requested, yielded, events>>

\* ------------------------------------------------------------- helpers
Range(s) ==
    {s[i] : i \in DOMAIN s}

\* reversed(...) of line 268
Reversed(s) ==
    [i \in 1..Len(s) |-> s[Len(s) + 1 - i]]

IsInjective(s) ==
    \A i, j \in DOMAIN s : i # j => s[i] # s[j]

\* What get_timeline(limit=10) can return to the poll loop: any list of posts
\* with pairwise distinct identifiers (an empty list included: _wrap_list
\* turns a non-list payload into []).
Windows ==
    UNION {{w \in [1..n -> Ids] : IsInjective(w)} : n \in 0..MaxWindow}

\* ------------------------------------------------ watch_timeline (256-275)
\* line 264: seen_ids = {p.id for p in posts}
BaselineSeenNothing(w) ==
    {}

BaselineSeen(w) ==
    Range(w)

\* line 267: new_posts = [p for p in posts if p.id not in seen_ids]
NewPostsUnfiltered(w, seen) ==
    w

NewPosts(w, seen) ==
    LET Novel(p) == p \notin seen
    IN  SelectSeq(w, Novel)

\* line 268: the order in which the for loop visits new_posts
DispatchOrder(s) ==
    Reversed(s)

\* line 269: seen_ids.add(post.id)
AdmitSeenSkip(seen, p) ==
    seen

AdmitSeen(seen, p) ==
    seen \cup {p}

\* lines 272-275: except Exception prints, then control reaches time.sleep
AfterErrorPropagate ==
    "halted"

AfterError ==
    "sleep"

\* where the for loop of line 268 goes once the iterator holds `rest`
AfterItem(rest) ==
    IF rest = <<>> THEN "sleep" ELSE "admit"

\* lines 262-265: the first successful fetch seeds seen_ids.  The local posts
\* of line 262 is the w of this step: it is read at line 264 and not again.
Baseline(w) ==
    /\ wpc = "fetch"
    /\ first_run
    /\ returned' = Range(w)
    /\ seen_ids' = BaselineSeen(w)
    /\ first_run' = FALSE
    /\ baseline' = Range(w)
    /\ cycle' = "baseline"
    /\ cycleCalls' = <<>>
    /\ wpc' = "sleep"
    /\ UNCHANGED <<callback, new_posts, todo, calls>>
    /\ UNCHANGED walkVars

\* lines 262, 266-268: a later successful fetch selects the novel posts (the
\* local posts of line 262 is w, read at line 267 and not again)
PollSteady(w) ==
    /\ wpc = "fetch"
    /\ ~first_run
    /\ returned' = Range(w)
    /\ new_posts' = NewPosts(w, seen_ids)
    /\ todo' = DispatchOrder(new_posts')
    /\ cycle' = "steady"
    /\ cycleCalls' = <<>>
    /\ wpc' = AfterItem(todo')
    /\ UNCHANGED <<seen_ids, first_run, callback, baseline, calls>>
    /\ UNCHANGED walkVars

\* line 262 raising (UwuzuError from _request, lines 116-119), caught at 272
FetchFail ==
    /\ wpc = "fetch"
    /\ cycle' = "feed_error"
    /\ cycleCalls' = <<>>
    /\ wpc' = AfterError
    /\ UNCHANGED <<seen_ids, first_run, callback, new_posts, todo,
                   baseline, calls>>
    /\ UNCHANGED <<returned, walkVars>>

\* line 269
Admit ==
    /\ wpc = "admit"
    /\ seen_ids' = AdmitSeen(seen_ids, Head(todo))
    /\ wpc' = "call"
    /\ UNCHANGED <<first_run, callback, new_posts, todo, cycle,
                   baseline, calls, cycleCalls>>
    /\ UNCHANGED <<returned, walkVars>>

\* lines 270-271, callback returning normally
CallReturn ==
    /\ wpc = "call"
    /\ callback
    /\ calls' = Append(calls, Head(todo))
    /\ cycleCalls' = Append(cycleCalls, Head(todo))
    /\ todo' = Tail(todo)
    /\ wpc' = AfterItem(todo')
    /\ UNCHANGED <<seen_ids, first_run, callback, new_posts, cycle,
                   baseline>>
    /\ UNCHANGED <<returned, walkVars>>

\* lines 270-271, callback raising: the for loop is left for line 272
CallRaise ==
    /\ wpc = "call"
    /\ callback
    /\ calls' = Append(calls, Head(todo))
    /\ cycleCalls' = Append(cycleCalls, Head(todo))
    /\ todo' = Tail(todo)
    /\ cycle' = "handler_error"
    /\ wpc' = AfterError
    /\ UNCHANGED <<seen_ids, first_run, callback, new_posts, baseline>>
    /\ UNCHANGED <<returned, walkVars>>

\* line 270 with callback None: nothing is called
CallNone ==
    /\ wpc = "call"
    /\ ~callback
    /\ todo' = Tail(todo)
    /\ wpc' = AfterItem(todo')
    /\ UNCHANGED <<seen_ids, first_run, callback, new_posts, cycle,
                   baseline, calls, cycleCalls>>
    /\ UNCHANGED <<returned, walkVars>>

\* line 275, then back to line 260
Sleep ==
    /\ wpc = "sleep"
    /\ wpc' = "fetch"
    /\ UNCHANGED <<seen_ids, first_run, callback, new_posts, todo,
                   cycle, baseline, calls, cycleCalls, returned>>
    /\ UNCHANGED walkVars

WatchNext ==
    \/ \E w \in Windows : Baseline(w)
    \/ \E w \in Windows : PollSteady(w)
    \/ FetchFail
    \/ Admit
    \/ CallReturn
    \/ CallRaise
    \/ CallNone
    \/ Sleep

\* ------------------------------------------------- iter_timeline (247-254)
\* The posts of the page returned by the call with cursor p, n of them: a post
\* of the walk is identified by its page and its position in it.
PageOf(p, n) ==
    [i \in 1..n |-> <<p, i>>]

\* line 248: for page in range(1, max_pages + 1)
LoopGoesShort(p, mp) ==
    IF p < mp THEN "fetch" ELSE "done"

LoopGoes(p, mp) ==
    IF p <= mp THEN "fetch" ELSE "done"

\* lines 250-252: if not posts: break; otherwise the posts are yielded
AfterPageNoBreak(ps) ==
    IF Len(ps) = 0 THEN "pause" ELSE "yield"

AfterPage(ps) ==
    IF Len(ps) = 0 THEN "done" ELSE "yield"

\* lines 252-254: after the last post of the page comes time.sleep(0.5)
AfterYield(rest) ==
    IF Len(rest) = 0 THEN "pause" ELSE "yield"

\* line 249 returning a page of n posts, then lines 250-251
IterFetch(n) ==
    /\ ipc = "fetch"
    /\ requested' = Append(requested, page)
    /\ events' = Append(events, "call")
    /\ pages' = Append(pages, PageOf(page, n))
    /\ cur' = PageOf(page, n)
    /\ ipc' = AfterPage(cur')
    /\ UNCHANGED <<max_pages, page, yielded>>
    /\ UNCHANGED watchVars

\* line 249 raising UwuzuError: the generator ends with that error
IterFetchFail ==
    /\ ipc = "fetch"
    /\ requested' = Append(requested, page)
    /\ events' = Append(events, "call")
    /\ ipc' = "error"
    /\ UNCHANGED <<max_pages, page, cur, pages, yielded>>
    /\ UNCHANGED watchVars

\* lines 252-253: one post handed to the consumer
IterYield ==
    /\ ipc = "yield"
    /\ yielded' = Append(yielded, Head(cur))
    /\ cur' = Tail(cur)
    /\ ipc' = AfterYield(cur')
    /\ UNCHANGED <<max_pages, page, pages, requested, events>>
    /\ UNCHANGED watchVars

\* line 254, then line 248 advances page
IterPause ==
    /\ ipc = "pause"
    /\ events' = Append(events, "pause")
    /\ page' = page + 1
    /\ cur' = <<>>
    /\ ipc' = LoopGoes(page', max_pages)
    /\ UNCHANGED <<max_pages, pages, requested, yielded>>
    /\ UNCHANGED watchVars

WalkNext ==
    \/ \E n \in 0..MaxPageLen : IterFetch(n)
    \/ IterFetchFail
    \/ IterYield
    \/ IterPause

\* ------------------------------------------------------- specifications
\* Both loops started, each owning its state (nothing mutable is shared).
Init ==
    /\ seen_ids = {}
    /\ first_run = TRUE
    /\ callback \in BOOLEAN
    /\ returned = {}
    /\ new_posts = <<>>
    /\ todo = <<>>
    /\ wpc = "fetch"
    /\ cycle = "none"
    /\ baseline = {}
    /\ calls = <<>>
    /\ cycleCalls = <<>>
    /\ max_pages \in 0..MaxPagesArg
    /\ page = 1
    /\ cur = <<>>
    /\ ipc = LoopGoes(1, max_pages)
    /\ pages = <<>>
    /\ requested = <<>>
    /\ yielded = <<>>
    /\ events = <<>>

Next ==
    \/ \E w \in Windows : Baseline(w)
    \/ \E w \in Windows : PollSteady(w)
    \/ FetchFail
    \/ Admit
    \/ CallReturn
    \/ CallRaise
    \/ CallNone
    \/ Sleep
    \/ \E n \in 0..MaxPageLen : IterFetch(n)
    \/ IterFetchFail
    \/ IterYield
    \/ IterPause

Spec ==
    Init /\ [][Next]_vars

\* One run of watch_timeline (lines 257-258 done), no traversal under way.
WatchInit ==
    /\ seen_ids = {}
    /\ first_run = TRUE
    /\ callback \in BOOLEAN
    /\ returned = {}
    /\ new_posts = <<>>
    /\ todo = <<>>
    /\ wpc = "fetch"
    /\ cycle = "none"
    /\ baseline = {}
    /\ calls = <<>>
    /\ cycleCalls = <<>>
    /\ max_pages = 0
    /\ page = 1
    /\ cur = <<>>
    /\ ipc = "done"
    /\ pages = <<>>
    /\ requested = <<>>
    /\ yielded = <<>>
    /\ events = <<>>

WatchSpec ==
    WatchInit /\ [][WatchNext]_vars

\* Every statement of the loop completes: the fetch returns or raises, the
\* callback returns or raises, the sleep ends.
WatchFairSpec ==
    WatchInit /\ [][WatchNext]_vars /\ WF_vars(WatchNext)

\* One traversal of iter_timeline by a consumer that exhausts the generator;
\* no poll loop running.
WalkInit ==
    /\ seen_ids = {}
    /\ first_run = TRUE
    /\ callback = FALSE
    /\ returned = {}
    /\ new_posts = <<>>
    /\ todo = <<>>
    /\ wpc = "halted"
    /\ cycle = "none"
    /\ baseline = {}
    /\ calls = <<>>
    /\ cycleCalls = <<>>
    /\ max_pages \in 0..MaxPagesArg
    /\ page = 1
    /\ cur = <<>>
    /\ ipc = LoopGoes(1, max_pages)
    /\ pages = <<>>
    /\ requested = <<>>
    /\ yielded = <<>>
    /\ events = <<>>

WalkSpec ==
    WalkInit /\ [][WalkNext]_vars

\* ------------------------------------------------------------ properties
\* The concatenation of a sequence of pages, in order.
RECURSIVE Flatten(_)
Flatten(ps) ==
    IF ps = <<>> THEN <<>> ELSE Head(ps) \o Flatten(Tail(ps))

\* <<1, 2, ..., k>>
Cursors(k) ==
    [i \in 1..k |-> i]

IsPrefix(s, t) ==
    /\ Len(s) <= Len(t)
    /\ \A i \in 1..Len(s) : s[i] = t[i]

\* C1 -- No duplicate delivery: over one run of watch_timeline, whatever mix
\* of successful fetches, failed fetches and raising callbacks occurs, no
\* identifier is passed to callback more than once.
NoDuplicateDelivery ==
    IsInjective(calls)

\* C1 witness: a steady cycle whose window brought back every identifier
\* already passed to callback, and called nothing.
NoDuplicateDeliveryWitness ==
    /\ wpc = "sleep"
    /\ cycle = "steady"
    /\ Len(calls) >= 2
    /\ Range(calls) \subseteq returned
    /\ cycleCalls = <<>>

\* C2 -- Baseline suppression: until the first fetch has succeeded nothing is
\* passed to callback and seen_ids is empty; the cycle of the first successful
\* fetch passes nothing to callback, clears first_run and leaves seen_ids
\* equal to exactly the identifiers that fetch returned.
BaselineSuppression ==
    /\ first_run => (calls = <<>> /\ seen_ids = {})
    /\ cycle = "baseline" =>
          /\ ~first_run
          /\ calls = <<>>
          /\ seen_ids = returned
          /\ baseline = returned
          /\ wpc \in {"sleep", "fetch"}

\* C2 witness: the baseline cycle has ended over a feed of several posts.
BaselineSuppressionWitness ==
    /\ cycle = "baseline"
    /\ wpc = "sleep"
    /\ Cardinality(returned) >= 2
    /\ callback

\* C3 -- Order preservation, as claimed: at the end of a steady cycle the
\* identifiers passed to callback in that cycle are exactly the cycle's novel
\* posts in the reverse of feed order.
OrderPreservation ==
    (callback /\ wpc = "sleep" /\ cycle \in {"steady", "handler_error"})
        => cycleCalls = Reversed(new_posts)

\* What the code does keep of C3: the calls of a cycle are always an initial
\* part of the reversed novel posts.
DispatchIsPrefixOfReversed ==
    (callback /\ cycle \in {"steady", "handler_error"})
        => IsPrefix(cycleCalls, Reversed(new_posts))

\* C4 -- Cycle isolation on feed failure: a cycle whose fetch raises passes
\* nothing to callback, leaves seen_ids and first_run as they were, reaches
\* the sleep of line 275 instead of leaving watch_timeline, and the next
\* fetch follows.
FeedFailureIsolation ==
    /\ [][(wpc = "fetch" /\ cycle' = "feed_error") =>
            /\ seen_ids' = seen_ids
            /\ first_run' = first_run
            /\ calls' = calls
            /\ cycleCalls' = <<>>
            /\ wpc' = "sleep"]_vars
    /\ [](cycle = "feed_error" => (wpc \in {"sleep", "fetch"} /\ cycleCalls = <<>>))
    /\ ((cycle = "feed_error" /\ wpc = "sleep") ~> (wpc = "fetch"))

\* C4 witness: the loop is back at the fetch after a failed cycle that came
\* after deliveries.
FeedFailureIsolationWitness ==
    /\ cycle = "feed_error"
    /\ wpc = "fetch"
    /\ ~first_run
    /\ calls # <<>>

\* C5 -- Partial-batch resilience, as claimed: at the end of a cycle in which
\* callback raised, callback has still been called with every novel post of
\* the batch and all their identifiers are in seen_ids.
PartialBatchResilience ==
    (wpc = "sleep" /\ cycle = "handler_error")
        => (Range(cycleCalls) = Range(new_posts) /\ Range(new_posts) \subseteq seen_ids)

\* C6 -- Exhaustion termination: once an empty page has been returned, it is
\* the last page asked for (page k <= max_pages), the calls made are exactly
\* those with cursors 1..k, the traversal is over, and what was yielded is
\* exactly the posts of pages 1..k-1 in the order received.
WalkExhaustion ==
    (\E j \in DOMAIN pages : Len(pages[j]) = 0) =>
        LET k == Len(pages)
        IN  /\ Len(pages[k]) = 0
            /\ \A j \in 1..(k - 1) : Len(pages[j]) > 0
            /\ k <= max_pages
            /\ requested = Cursors(k)
            /\ ipc = "done"
            /\ yielded = Flatten(SubSeq(pages, 1, k - 1))

\* C6 witness: a traversal ended by an empty page before the cap, after posts
\* were yielded.
WalkExhaustionWitness ==
    /\ ipc = "done"
    /\ Len(pages) >= 2
    /\ Len(pages) < max_pages
    /\ Len(pages[Len(pages)]) = 0
    /\ Len(yielded) >= 2

\* C7 -- Page cap termination: a finished traversal that never met an empty
\* page made exactly max_pages calls, with cursors 1..max_pages, and yielded
\* exactly the posts of those pages in the order received.
WalkPageCap ==
    (ipc = "done" /\ \A j \in DOMAIN pages : Len(pages[j]) > 0) =>
        /\ Len(pages) = max_pages
        /\ requested = Cursors(max_pages)
        /\ yielded = Flatten(pages)

\* C7 witness: a traversal of several full pages ended by the cap.
WalkPageCapWitness ==
    /\ ipc = "done"
    /\ max_pages >= 2
    /\ Len(pages) = max_pages
    /\ \A j \in DOMAIN pages : Len(pages[j]) = MaxPageLen

\* C8 -- No error exit: watch_timeline never leaves its loop, whatever a
\* cycle does, and again and again reaches the sleep and then a further fetch.
NoErrorExit ==
    /\ [](wpc # "halted")
    /\ []<>(wpc = "sleep")
    /\ []<>(wpc = "fetch")

\* C8 witness: the loop is back at the fetch after a cycle whose callback
\* raised.
NoErrorExitWitness ==
    /\ cycle = "handler_error"
    /\ wpc = "fetch"
    /\ todo # <<>>

\* C9 -- Courtesy pause placement, as claimed: no pause before the first
\* call, none after the last call of a finished traversal, and exactly one
\* between two successive calls.
PausePlacement ==
    /\ (events # <<>> => events[1] = "call")
    /\ \A i \in 1..(Len(events) - 1) : events[i] # events[i + 1]
    /\ (ipc \in {"done", "error"} /\ events # <<>>) => events[Len(events)] = "call"

\* C10 -- SeenSet invariant, as claimed: in every state an identifier is in
\* seen_ids exactly when the baseline poll returned it or it has already been
\* passed to callback.
SeenSetInvariant ==
    seen_ids = baseline \cup Range(calls)

\* C10, amended: every identifier of the baseline poll or passed to callback
\* is in seen_ids; with a callback supplied, seen_ids holds beyond those only
\* the post line 269 has just admitted and line 271 is about to pass; with no
\* callback nothing is ever passed; seen_ids never loses an identifier.
SeenSetAdmitsBeforeCall ==
    /\ [](/\ (baseline \cup Range(calls)) \subseteq seen_ids
          /\ callback =>
                seen_ids \ (baseline \cup Range(calls))
                    = IF wpc = "call" THEN {Head(todo)} ELSE {}
          /\ ~callback => calls = <<>>)
    /\ [][seen_ids \subseteq seen_ids']_vars

\* C10 witness: line 269 has admitted a post that callback has not been
\* given yet.
SeenSetAdmitsBeforeCallWitness ==
    /\ wpc = "call"
    /\ callback
    /\ Head(todo) \in seen_ids
    /\ Head(todo) \notin Range(calls)
    /\ calls # <<>>

====
